---- MODULE Spec2Model ----
(***************************************************************************)
(* A model of the Telit LE910C4 modem interface (src/telit.py) and of the  *)
(* programs that drive it.  The serial channel is a pexpect child: bytes   *)
(* the modem writes arrive in the child's buffer some time after a command *)
(* is sent, and expect() searches that buffer.  Every operation of the     *)
(* class hierarchy is a small sequential program over that channel; pc is  *)
(* its position, stack the return addresses of its callers.                *)
(*                                                                         *)
(* Abstractions.  The byte stream is a sequence of lines (tokens): the     *)
(* terminators "OK\r\n" and "ERROR\r\n" and response lines, each carrying  *)
(* the number of the command it answers.  Sleeps take no model time; they  *)
(* are recorded in the event log.  Printing (verbose) is modelled only     *)
(* where it can raise.                                                     *)
(***************************************************************************)
EXTENDS Integers, Sequences, FiniteSets, TLC

VARIABLES
    flow,         \* the top-level operation this behaviour runs
    trace,        \* history of the caller: channels, calls and their ends
    pc,           \* position of the program
    stack,        \* return addresses of the callers
    ret,          \* value returned by the last call that returned
    exc,          \* the exception that ended the operation, or "none"
    child,        \* self._child: number of the spawned cu process
    eof,          \* the child's output stream has ended
    pending,      \* commands the modem received and has not answered yet
    wire,         \* lines of the answer the modem is writing, in order
    buf,          \* lines that arrived and no expect() has consumed
    arrived,      \* history: every line that arrived from the current child
    nsent,        \* number of commands written to the channel so far
    log,          \* history of the program's own steps
    k,            \* loop index of send_at_ok / get_position
    count,        \* send_at_ok's parameter
    hdop,         \* get_position's parameter (target HDOP, in tenths)
    total,        \* get_position's parameter
    min_results,  \* get_position's best retained fix
    command,      \* _command_with_result's parameters
    rc,           \* _command_with_result's captured text / get_cgdcont's row
    verbose,      \* self._verbose
    decoded       \* history: the usable fixes get_position decoded, in order

chanVars == <<child, eof, pending, wire, buf, nsent>>
ctlVars  == <<flow, trace, pc, stack, ret, exc>>
atVars   == <<k, count>>
gpsVars  == <<hdop, total, min_results, verbose, decoded>>
cwrVars  == <<command, rc>>
vars     == <<flow, trace, pc, stack, ret, exc, child, eof, pending, wire, buf, arrived,
              nsent, log,
              k, count, hdop, total, min_results, command, rc, verbose,
              decoded>>

\* Python's None, and a str value (kept as the fields between its commas).
None == [none |-> TRUE]
Str(fields) == [text |-> fields]
\* str.split(',')
split(str) == str.text
\* A Python bool.
Bool(b) == [bool |-> b]

----------------------------------------------------------------------------
(* Bounds of the model.                                                    *)

\* Largest max_attempts given to send_at_ok when it is called on its own.
MaxCount == 3

\* Largest max_attempts (total) given to get_position.
MaxAttempts == 5

\* Largest number of commands whose answers may still be outstanding.
MaxPending == 2

\* Largest number of context rows in one answer to AT+CGDCONT?.
MaxRows == 2

\* Largest number of fields of a sentence given to _parse_values on its own.
MaxFields == 13

\* Number of cycles of the daemon's loop that are followed.
MaxCycles == 1

\* The polls of get_continuous_gps_fix that are followed.
MaxPolls == 3

\* In gps_init: the number of get_position calls of the while loop that
\* are followed.
MaxInitRounds == 1

(* Program constants.                                                      *)

\* send_at_ok's default count, used by every caller in the repository.
DefaultCount == 10

----------------------------------------------------------------------------
(* The channel.                                                            *)

Terminators == {"OK", "ERROR"}

\* A line of modem output: its kind, its captured text, the command it answers.
Line(kind, text, id) == [k |-> kind, v |-> text, id |-> id]

\* What the modem may write in answer to a command, as sequences of
\* <<kind, text>>.  Silence is the empty answer.
TermReplies == { <<>>, << <<"OK", <<>> >> >>, << <<"ERROR", <<>> >> >> }

\* The HDOP fields the modem reports, and float() of each, in tenths.
HdopFields == {"1.2", "2.0", "4.0", "9.0"}

float(field) ==
    CASE field = "1.2" -> 12
      [] field = "2.0" -> 20
      [] field = "4.0" -> 40
      [] field = "9.0" -> 90
      [] field = "9999.0" -> 99990

\* A $GPSACP sentence, already split at its commas: n fields, of which the
\* first is the time of the reading, the fourth the HDOP and the sixth the
\* fix-quality code.
Sentence(n, gmtime, h, fix) ==
    [i \in 1..n |->
        CASE i = 1 -> gmtime
          [] i = 2 -> "3723.2475N"
          [] i = 3 -> "12158.3416W"
          [] i = 4 -> h
          [] i = 5 -> "30.0"
          [] i = 6 -> fix
          [] OTHER -> "0"]

\* The sentences the modem may report at time t: a valid 3D fix with each
\* HDOP, no fix yet (code 0, all twelve fields), a 3D fix in a sentence of
\* thirteen fields, and a sentence cut to five fields.
Sentences(t) ==
    { Sentence(12, t, h, "3") : h \in HdopFields }
        \cup { Sentence(12, t, "", "0"),
               Sentence(13, t, "1.2", "3"),
               Sentence(5, t, "", "") }

\* Answers to a command that returns a line of data: the line and OK, the
\* line alone, the line and ERROR, or a bare terminator or silence.
DataReplies(kind, texts) ==
    TermReplies
        \cup { << <<kind, d>>, <<"OK", <<>> >> >> : d \in texts }
        \cup { << <<kind, d>>, <<"ERROR", <<>> >> >> : d \in texts }
        \cup { << <<kind, d>> >> : d \in texts }

\* A context row, split at its commas, each field a sequence of characters.
Q == "\""
Row(cid, apn, more) ==
    << <<cid>>, <<Q, "I", "P", Q>>, apn >> \o more

\* The rows the modem may report: context 1 and context 2 with a quoted APN,
\* context 1 with an unquoted APN, context 1 with a dotted APN, and a row
\* of context 1 with three fields only.
Rows ==
    { Row("1", <<Q, "s", "u", Q>>, << <<Q, Q>> >>),
      Row("2", <<Q, "s", "u", Q>>, << <<Q, Q>> >>),
      Row("1", <<"i", "m", "s">>, << <<"0">> >>),
      Row("1", <<Q, "s", ".", "u", Q>>, << <<Q, Q>> >>),
      Row("1", <<Q, "s", "u", Q>>, <<>>) }

\* Answers to AT+CGDCONT?: up to MaxRows rows, then OK, ERROR or nothing.
ContextReplies ==
    { [i \in 1..Len(rows) |-> <<"CGDCONT", rows[i]>>] \o term :
        rows \in UNION { [1..m -> Rows] : m \in 0..MaxRows },
        term \in TermReplies }

\* An #ECMC status line, split at its commas: n fields, the second of
\* which is the status.
EcmcRow(status, n) ==
    [i \in 1..n |-> CASE i = 1 -> <<"0">>
                      [] i = 2 -> status
                      [] OTHER -> <<Q, Q>>]

\* The status fields the modem may report: up, down, empty, up in quotes,
\* and a two-digit value that begins with 1.
Statuses == { <<"1">>, <<"0">>, <<>>, <<Q, "1", Q>>, <<"1", "0">> }

\* The number of fields of a status line: the usual five, more, and fewer.
EcmcLengths == {1, 4, 5, 6}

EcmcRows == { EcmcRow(st, n) : st \in Statuses, n \in EcmcLengths }

\* The clock readings the modem may report (date, then time and zone in
\* quarters of an hour), and int(rc[17:]) of each.
ClockTexts == { <<"21/06/01", "12:00:00+00">>, <<"21/06/01", "12:00:00-28">>,
                <<"21/06/01", "12:00:00+01">> }

zone_offset(text) ==
    CASE text[2] = "12:00:00+00" -> 0
      [] text[2] = "12:00:00-28" -> -28
      [] text[2] = "12:00:00+01" -> 1

\* The n-th command's answers; the modem's clock reads n when it answers.
Replies(c, n) ==
    CASE c = "\r"          -> { <<>> }
      [] c = "AT$GPSACP"   -> DataReplies("GPSACP", Sentences(ToString(n)))
      [] c = "AT#USBCFG?"  -> DataReplies("USBCFG", { <<"0">>, <<"4">> })
      [] c = "AT+CGDCONT?" -> ContextReplies
      [] c = "AT#ECMC?"    -> DataReplies("ECMC", EcmcRows)
      [] c = "AT+ICCID"    -> DataReplies("ICCID", { <<"8901">> })
      [] c = "AT+CCLK?"    -> DataReplies("CCLK", ClockTexts)
      [] OTHER             -> TermReplies

Tag(reply, id) == [i \in 1..Len(reply) |-> Line(reply[i][1], reply[i][2], id)]

\* child.send(): the command is on its way to the modem.  A write to a child
\* whose stream has ended reaches nobody.  The model lets at most MaxPending
\* commands wait for a late answer: an older one is never answered.
Send(c) ==
    /\ nsent' = nsent + 1
    /\ pending' = IF eof THEN pending
                  ELSE Append(IF Len(pending) < MaxPending THEN pending
                              ELSE Tail(pending),
                              [cmd |-> c, id |-> nsent + 1])

Running == pc \notin {"done", "raised"}

\* The modem takes up the oldest command it has not answered and settles on
\* its answer (which may be silence); it answers commands in order, one at a
\* time, and however late.
Answer ==
    /\ Running
    /\ ~eof
    /\ pending # <<>>
    /\ wire = <<>>
    /\ \E r \in Replies(Head(pending).cmd, Head(pending).id) :
          wire' = Tag(r, Head(pending).id)
    /\ pending' = Tail(pending)
    /\ UNCHANGED <<arrived, ctlVars, child, eof, buf, nsent, log, atVars, gpsVars, cwrVars>>

\* The next line of the modem's answer arrives in the child's buffer.
Deliver ==
    /\ Running
    /\ ~eof
    /\ wire # <<>>
    /\ buf' = Append(buf, Head(wire))
    /\ arrived' = Append(arrived, Head(wire))
    /\ wire' = Tail(wire)
    /\ UNCHANGED <<ctlVars, child, eof, pending, nsent, log, atVars, gpsVars, cwrVars>>

\* cu terminates (the serial device went away): the stream ends after what
\* has arrived; what the modem had still to write is lost.
ChannelDies ==
    /\ Running
    /\ ~eof
    /\ eof' = TRUE
    /\ wire' = <<>>
    /\ pending' = <<>>
    /\ UNCHANGED <<arrived, ctlVars, child, buf, nsent, log, atVars, gpsVars, cwrVars>>

\* The characters of [0-9A-Za-z,"], among those the model's rows use.
RowClass == {"0", "1", "2", "I", "P", "i", "m", "s", "u", Q}

\* Whether a pattern of an expect() list matches a line.  The pattern
\* [+]CGDCONT:[ ]+([0-9A-Za-z,"]+)\r\n matches a row only if every character
\* up to the end of the line is of its class.
Matches(pattern, line) ==
    /\ line.k = pattern
    /\ pattern = "CGDCONT" =>
          \A f \in DOMAIN line.v : \A c \in DOMAIN line.v[f] :
              line.v[f][c] \in RowClass

\* Position in b of the first line some pattern matches, or 0.
FirstMatch(patterns, b) ==
    LET hits == { i \in 1..Len(b) :
                    \E p \in 1..Len(patterns) : Matches(patterns[p], b[i]) }
    IN  IF hits = {} THEN 0 ELSE CHOOSE i \in hits : \A j \in hits : i <= j

\* pexpect's expect(patterns): i is the index (from 0, as in the code) of the
\* pattern that matched first in the stream; what precedes the match is
\* dropped with it.  With no match, the end of the stream matches pexpect.EOF
\* when listed and raises pexpect.EOF (i = -1) otherwise; a live stream with
\* no match runs into pexpect.TIMEOUT (index 0 of every list in the code) and
\* keeps its buffer.
expect(patterns, b, ended) ==
    LET at == FirstMatch(patterns, b)
        eofAt == { p \in 1..Len(patterns) : patterns[p] = "EOF" }
    IN  IF at # 0
        THEN [i |-> (CHOOSE p \in 1..Len(patterns) :
                        /\ Matches(patterns[p], b[at])
                        /\ \A q \in 1..(p-1) : ~Matches(patterns[q], b[at])) - 1,
              match |-> b[at].v, id |-> b[at].id,
              rest |-> SubSeq(b, at + 1, Len(b))]
        ELSE IF ended
        THEN [i |-> IF eofAt = {} THEN -1 ELSE (CHOOSE p \in eofAt : TRUE) - 1,
              match |-> <<>>, id |-> 0, rest |-> <<>>]
        ELSE [i |-> 0, match |-> <<>>, id |-> 0, rest |-> b]

Event(what, arg) == [e |-> what, a |-> arg]

----------------------------------------------------------------------------
(* Calls, returns and exceptions.                                          *)

Return(v) ==
    /\ ret' = v
    /\ exc' = exc
    /\ IF stack = <<>>
       THEN pc' = "done" /\ stack' = stack
       ELSE pc' = Head(stack) /\ stack' = Tail(stack)

\* The frames of the stack that stand for a handler: the end of a with
\* block (__exit__) and the except clauses of the daemon's loop.
Handlers_except_only == {"main_except"}
Handlers == {"__exit__", "main_except"}

\* The frames an exception leaves behind: those above the nearest handler.
RECURSIVE Unwind(_)
Unwind(st) ==
    IF st = <<>> \/ Head(st) \in Handlers THEN st ELSE Unwind(Tail(st))

\* An exception leaves every call up to the nearest handler; with no
\* handler it ends the program.
Raise(e) ==
    /\ exc' = e
    /\ ret' = ret
    /\ LET to == Unwind(stack)
       IN  IF to = <<>>
           THEN pc' = "raised" /\ stack' = <<>>
           ELSE pc' = Head(to) /\ stack' = Tail(to)

----------------------------------------------------------------------------
(* ModemBase._wait_for_result                                              *)

\* The outcome of one wait: "OK" returned, or the exception raised.
WaitOutcome(i) ==
    CASE i = 0  -> "ModemTimeout"
      [] i = 1  -> "OK"
      [] i = 2  -> "ModemError"
      [] i = -1 -> "EOF"
      [] OTHER  -> "ModemBusted"

_wait_for_result(b, ended) ==
    LET r == expect(<<"TIMEOUT", "OK", "ERROR">>, b, ended)
    IN  [out |-> WaitOutcome(r.i), id |-> r.id, rest |-> r.rest]

----------------------------------------------------------------------------
(* ModemBase.send_at_ok                                                    *)

\* self._child.send("\r"); time.sleep(0.1)
send_at_ok_start ==
    /\ pc = "send_at_ok"
    /\ Send("\r")
    /\ log' = log \o <<Event("send", "\r"), Event("sleep", "0.1")>>
    /\ k' = 0
    /\ pc' = "at_loop"
    /\ UNCHANGED <<arrived, flow, trace, stack, ret, exc, child, eof, wire, buf, count, gpsVars, cwrVars>>

\* for k in range(count): self._child.send("AT\r") ... raise ModemTimeout
send_at_ok_probe ==
    /\ pc = "at_loop"
    /\ IF k < count
       THEN /\ Send("AT")
            /\ log' = Append(log, Event("send", "AT"))
            /\ pc' = "at_wait"
            /\ UNCHANGED <<stack, ret, exc>>
       ELSE /\ Raise("ModemTimeout")
            /\ UNCHANGED <<nsent, pending, log>>
    /\ UNCHANGED <<arrived, flow, trace, child, eof, wire, buf, atVars, gpsVars, cwrVars>>

\* try: self._wait_for_result() / except ModemTimeout: sleep(0.5) / else: return
send_at_ok_wait ==
    /\ pc = "at_wait"
    /\ LET r == _wait_for_result(buf, eof)
       IN  /\ buf' = r.rest
           /\ CASE r.out = "OK" ->
                     /\ Return(None)
                     /\ log' = Append(log, Event("wait", r.out))
                     /\ k' = k
                [] r.out = "ModemTimeout" ->
                     /\ log' = log \o <<Event("wait", r.out), Event("sleep", "0.5")>>
                     /\ k' = k + 1
                     /\ pc' = "at_loop"
                     /\ UNCHANGED <<stack, ret, exc>>
                [] OTHER ->
                     /\ Raise(r.out)
                     /\ log' = Append(log, Event("wait", r.out))
                     /\ k' = k
    /\ UNCHANGED <<arrived, flow, trace, child, eof, pending, wire, nsent, count, gpsVars, cwrVars>>

Handshake == send_at_ok_start \/ send_at_ok_probe \/ send_at_ok_wait

Environment == Answer \/ Deliver \/ ChannelDies

----------------------------------------------------------------------------
(* ModemBase._command_with_result and _handle_single_result                *)

Call(proc, back) ==
    /\ pc' = proc
    /\ stack' = <<back>> \o stack

\* self._child.send(f"{command}\r")
cwr_send ==
    /\ pc = "_command_with_result"
    /\ Send(command.cmd)
    /\ log' = Append(log, Event("send", command.cmd))
    /\ pc' = "cwr_expect"
    /\ UNCHANGED <<arrived, flow, trace, stack, ret, exc, child, eof, wire, buf, atVars, gpsVars, cwrVars>>

\* The result of index i of expect([TIMEOUT, pattern]): the captured text,
\* or the exception raised.
_handle_single_result(i, match) ==
    CASE i = 0 -> [raise |-> "ModemTimeout", text |-> None]
      [] i = 1 -> [raise |-> "none", text |-> Str(match)]
      [] OTHER -> [raise |-> "ModemBusted", text |-> None]

\* i = self._child.expect([pexpect.TIMEOUT, pattern]);
\* rc = self._handle_single_result(i)
cwr_expect ==
    /\ pc = "cwr_expect"
    /\ LET r == expect(<<"TIMEOUT", command.pattern>>, buf, eof)
           h == _handle_single_result(r.i, r.match)
       IN  /\ buf' = r.rest
           /\ IF r.i = -1
              THEN /\ Raise("EOF")
                   /\ log' = Append(log, Event("expect", "EOF"))
                   /\ rc' = rc
              ELSE IF h.raise # "none"
              THEN /\ Raise(h.raise)
                   /\ log' = Append(log, Event("expect", h.raise))
                   /\ rc' = rc
              ELSE /\ rc' = h.text
                   /\ log' = Append(log, Event("expect", "match"))
                   /\ pc' = "cwr_wait"
                   /\ UNCHANGED <<stack, ret, exc>>
    /\ UNCHANGED <<arrived, flow, trace, child, eof, pending, wire, nsent, atVars, gpsVars, command>>

\* The same step with the outcome of the wait swallowed: rc is returned
\* whatever the trailing wait saw.
cwr_wait_unchecked ==
    /\ pc = "cwr_wait"
    /\ LET r == _wait_for_result(buf, eof)
       IN  /\ buf' = r.rest
           /\ log' = Append(log, Event("wait", r.out))
           /\ Return(rc)
    /\ UNCHANGED <<arrived, flow, trace, child, eof, pending, wire, nsent, atVars, gpsVars, cwrVars>>

\* _ = self._wait_for_result(); return rc
cwr_wait ==
    /\ pc = "cwr_wait"
    /\ LET r == _wait_for_result(buf, eof)
       IN  /\ buf' = r.rest
           /\ log' = Append(log, Event("wait", r.out))
           /\ IF r.out = "OK" THEN Return(rc) ELSE Raise(r.out)
    /\ UNCHANGED <<arrived, flow, trace, child, eof, pending, wire, nsent, atVars, gpsVars, cwrVars>>

CommandWithResult == cwr_send \/ cwr_expect \/ cwr_wait

----------------------------------------------------------------------------
(* TelitGPS._parse_values and get_position                                 *)

\* The dict _parse_values builds from a sentence of twelve fields (the
\* fields the acquisition loop reads; latitude and longitude stay as sent).
_parse_values(position) ==
    [GMTIME    |-> position[1],
     LATITUDE  |-> position[2],
     LONGITUDE |-> position[3],
     HDOP      |-> position[4],
     ALTITUDE  |-> position[5],
     fix       |-> position[6],
     hdop      |-> float(position[4])]

\* if len(position) != 12: raise TelitGPSDataError
ParseFails_short(position) == Len(position) < 12
ParseFails(position) == Len(position) # 12

\* What _parse_values raises on a sentence: its own data-format error, the
\* ValueError of float() on an HDOP field that is no number, or nothing.
ParseOutcome(position) ==
    IF ParseFails(position) THEN "TelitGPSDataError"
    ELSE IF position[4] \notin HdopFields THEN "ValueError"
    ELSE "none"

\* _parse_values(position) called on its own; the sentence is in rc.
parse_values_call ==
    /\ pc = "_parse_values"
    /\ LET position == split(rc)
       IN  IF ParseOutcome(position) # "none"
           THEN Raise(ParseOutcome(position))
           ELSE Return(_parse_values(position))
    /\ UNCHANGED <<arrived, flow, trace, chanVars, log, atVars, gpsVars, cwrVars>>

\* if k > 0: time.sleep(10)
SleepsBefore_always(attempt) == attempt >= 0
SleepsBefore(attempt) == attempt > 0

\* if hdop >= rc["hdop"]: return rc
MeetsTarget_strict(target, fix) == target > fix.hdop
MeetsTarget(target, fix) == target >= fix.hdop

\* if min_results is None or min_results["hdop"] >= rc["hdop"]: min_results = rc
Retain_worst(best, fix) ==
    IF best = None \/ best.hdop <= fix.hdop THEN fix ELSE best
Retain(best, fix) ==
    IF best = None \/ best.hdop >= fix.hdop THEN fix ELSE best

\* min_results = None
get_position_start ==
    /\ pc = "get_position"
    /\ min_results' = None
    /\ k' = 0
    /\ pc' = "gp_loop"
    /\ UNCHANGED <<arrived, flow, trace, stack, ret, exc, chanVars, log, count, hdop, total,
                   verbose, decoded, cwrVars>>

\* for k in range(total): if k > 0: time.sleep(10);
\* results = self._get_one_position()   ...   return min_results
get_position_request ==
    /\ pc = "gp_loop"
    /\ IF k < total
       THEN /\ log' = IF SleepsBefore(k)
                     THEN Append(log, Event("sleep", "10")) ELSE log
            /\ command' = [cmd |-> "AT$GPSACP", pattern |-> "GPSACP"]
            /\ Call("_command_with_result", "gp_results")
            /\ UNCHANGED <<ret, exc>>
       ELSE /\ Return(min_results)
            /\ UNCHANGED <<log, command>>
    /\ UNCHANGED <<arrived, flow, trace, chanVars, atVars, gpsVars, rc>>

\* position = results.split(','); a fix of quality 3 is parsed, returned if
\* it meets the target and retained if it is the best so far.
get_position_results ==
    /\ pc = "gp_results"
    /\ LET position == split(ret)
           fix == _parse_values(position)
       IN  IF Len(position) >= 6 /\ position[6] = "3"
           THEN IF ParseOutcome(position) # "none"
                THEN /\ Raise(ParseOutcome(position))
                     /\ log' = Append(log, Event("result", "malformed"))
                     /\ UNCHANGED <<k, min_results, decoded>>
                ELSE /\ decoded' = Append(decoded, fix)
                     /\ log' = Append(log, Event("result", "fix"))
                     /\ IF MeetsTarget(hdop, fix)
                        THEN /\ Return(fix)
                             /\ UNCHANGED <<k, min_results>>
                        ELSE /\ min_results' = Retain(min_results, fix)
                             /\ k' = k + 1
                             /\ pc' = "gp_loop"
                             /\ UNCHANGED <<stack, ret, exc>>
           ELSE \* print(f"... got {position[5]}, hdop was '{position[3]}'")
                IF verbose /\ Len(position) < 6
                THEN /\ Raise("IndexError")
                     /\ log' = Append(log, Event("result", "short"))
                     /\ UNCHANGED <<k, min_results, decoded>>
                ELSE /\ log' = Append(log, Event("result",
                                   IF Len(position) < 6 THEN "short" ELSE "miss"))
                     /\ k' = k + 1
                     /\ pc' = "gp_loop"
                     /\ UNCHANGED <<stack, ret, exc, min_results, decoded>>
    /\ UNCHANGED <<arrived, flow, trace, chanVars, count, hdop, total, verbose, cwrVars>>

GetPosition == get_position_start \/ get_position_request \/ get_position_results

----------------------------------------------------------------------------
(* TelitECM._wait_for_reboot, reboot and set_usb_config                    *)

\* self._child.send("AT#REBOOT\r"); self._wait_for_reboot()
reboot ==
    /\ pc = "reboot"
    /\ Send("AT#REBOOT")
    /\ log' = Append(log, Event("send", "AT#REBOOT"))
    /\ pc' = "_wait_for_reboot"
    /\ UNCHANGED <<arrived, flow, trace, stack, ret, exc, child, eof, wire, buf, atVars, gpsVars, cwrVars>>

\* self._child.send(f"AT#USBCFG={value}\r")
set_usb_config_send ==
    /\ pc = "set_usb_config"
    /\ Send("AT#USBCFG=4")
    /\ log' = Append(log, Event("send", "AT#USBCFG=4"))
    /\ pc' = "usb_wait"
    /\ UNCHANGED <<arrived, flow, trace, stack, ret, exc, child, eof, wire, buf, atVars, gpsVars, cwrVars>>

\* _ = self._wait_for_result(); self._wait_for_reboot()
set_usb_config_wait ==
    /\ pc = "usb_wait"
    /\ LET r == _wait_for_result(buf, eof)
       IN  /\ buf' = r.rest
           /\ log' = Append(log, Event("wait", r.out))
           /\ IF r.out = "OK"
              THEN pc' = "_wait_for_reboot" /\ UNCHANGED <<stack, ret, exc>>
              ELSE Raise(r.out)
    /\ UNCHANGED <<arrived, flow, trace, child, eof, pending, wire, nsent, atVars, gpsVars, cwrVars>>

\* time.sleep(30)
wfr_settle_probing ==
    /\ pc = "_wait_for_reboot"
    /\ Send("AT")
    /\ log' = log \o <<Event("send", "AT"), Event("sleep", "30")>>
    /\ pc' = "wfr_eof"
    /\ UNCHANGED <<arrived, flow, trace, stack, ret, exc, child, eof, wire, buf, atVars, gpsVars, cwrVars>>
wfr_settle ==
    /\ pc = "_wait_for_reboot"
    /\ log' = Append(log, Event("sleep", "30"))
    /\ pc' = "wfr_eof"
    /\ UNCHANGED <<arrived, flow, trace, stack, ret, exc, chanVars, atVars, gpsVars, cwrVars>>

\* if i == 0: raise ModemTimeout
EofTimedOut_ignored(i) == FALSE
EofTimedOut(i) == i = 0

\* i = self._child.expect([pexpect.TIMEOUT, pexpect.EOF], timeout=30);
\* if i == 0: raise ModemTimeout / elif i == 1: self._start_cu();
\* time.sleep(0.5); self.send_at_ok()
wfr_eof ==
    /\ pc = "wfr_eof"
    /\ LET r == expect(<<"TIMEOUT", "EOF">>, buf, eof)
       IN  IF EofTimedOut(r.i)
           THEN /\ Raise("ModemTimeout")
                /\ log' = Append(log, Event("eof", "timeout"))
                /\ buf' = r.rest
                /\ UNCHANGED <<child, eof, pending, wire, arrived, count, trace>>
           ELSE /\ IF r.i = 1
                   THEN \* _start_cu(): self._child = pexpect.spawn(self._cmd)
                        /\ child' = child + 1
                        /\ eof' = FALSE
                        /\ buf' = <<>>
                        /\ wire' = <<>>
                        /\ pending' = <<>>
                        /\ arrived' = <<>>
                        /\ log' = log \o <<Event("eof", "seen"), Event("spawn", ""),
                                            Event("sleep", "0.5")>>
                        /\ trace' = trace \o <<Event("eof", ""), Event("spawn", ""),
                                                Event("call", "send_at_ok")>>
                   ELSE /\ buf' = r.rest
                        /\ log' = log \o <<Event("eof", "timeout"),
                                            Event("sleep", "0.5")>>
                        /\ UNCHANGED <<child, eof, pending, wire, arrived, trace>>
                /\ count' = DefaultCount
                /\ pc' = "send_at_ok"
                /\ UNCHANGED <<stack, ret, exc>>
    /\ UNCHANGED <<flow, nsent, k, gpsVars, cwrVars>>

Reboot == reboot \/ set_usb_config_send \/ set_usb_config_wait
             \/ wfr_settle \/ wfr_eof

----------------------------------------------------------------------------
(* Commands without data: ecm_start, ecm_stop, set_cgdcont, send_gpsp      *)

\* self._child.send("AT#ECM=1,0\r")
void_send ==
    /\ pc = "run_void"
    /\ Send(command.cmd)
    /\ log' = Append(log, Event("send", command.cmd))
    /\ pc' = "void_wait"
    /\ UNCHANGED <<arrived, flow, trace, stack, ret, exc, child, eof, wire, buf, atVars, gpsVars, cwrVars>>

\* _ = self._wait_for_result()
void_wait_retrying ==
    /\ pc = "void_wait"
    /\ LET r == _wait_for_result(buf, eof)
       IN  /\ buf' = r.rest
           /\ log' = Append(log, Event("wait", r.out))
           /\ CASE r.out = "OK" -> Return(None)
                [] r.out = "ModemTimeout" ->
                     pc' = "run_void" /\ UNCHANGED <<stack, ret, exc>>
                [] OTHER -> Raise(r.out)
    /\ UNCHANGED <<arrived, flow, trace, child, eof, pending, wire, nsent, atVars, gpsVars, cwrVars>>
void_wait ==
    /\ pc = "void_wait"
    /\ LET r == _wait_for_result(buf, eof)
       IN  /\ buf' = r.rest
           /\ log' = Append(log, Event("wait", r.out))
           /\ IF r.out = "OK" THEN Return(None) ELSE Raise(r.out)
    /\ UNCHANGED <<arrived, flow, trace, child, eof, pending, wire, nsent, atVars, gpsVars, cwrVars>>

RunVoid == void_send \/ void_wait

----------------------------------------------------------------------------
(* TelitECM.get_cgdcont and ModemBase._strip_quotes                        *)

List(fields) == [list |-> fields]

_strip_quotes(field) ==
    IF Len(field) < 2 THEN field
    ELSE IF field[1] = Q /\ field[Len(field)] = Q
         THEN SubSeq(field, 2, Len(field) - 1)
         ELSE field

\* if len(stuff) >= 4 and stuff[0] == "1": rc = stuff;
\* rc[1] = self._strip_quotes(rc[1]); rc[2] = self._strip_quotes(rc[2])
KeepRow(kept, stuff) ==
    IF Len(stuff) >= 4 /\ stuff[1] = <<"1">>
    THEN List([i \in DOMAIN stuff |->
                 IF i \in {2, 3} THEN _strip_quotes(stuff[i]) ELSE stuff[i]])
    ELSE kept

\* self._child.send(f"AT+CGDCONT?\r"); finished = False; rc = None
get_cgdcont_send ==
    /\ pc = "get_cgdcont"
    /\ Send("AT+CGDCONT?")
    /\ log' = Append(log, Event("send", "AT+CGDCONT?"))
    /\ rc' = None
    /\ pc' = "cg_loop"
    /\ UNCHANGED <<arrived, flow, trace, stack, ret, exc, child, eof, wire, buf, atVars, gpsVars, command>>

\* while not finished: i = self._child.expect([TIMEOUT, row, "OK\r\n"]) ...
\* if rc is None: raise ECMDataError / return rc
get_cgdcont_expect ==
    /\ pc = "cg_loop"
    /\ LET r == expect(<<"TIMEOUT", "CGDCONT", "OK">>, buf, eof)
       IN  /\ buf' = r.rest
           /\ CASE r.i = 2 ->
                     /\ log' = Append(log, Event("expect", "OK"))
                     /\ rc' = rc
                     /\ IF rc = None THEN Raise("ECMDataError") ELSE Return(rc)
                [] r.i = 0 ->
                     /\ log' = Append(log, Event("expect", "ModemTimeout"))
                     /\ rc' = rc
                     /\ Raise("ModemTimeout")
                [] r.i = 1 ->
                     /\ log' = Append(log, Event("expect", "match"))
                     /\ rc' = KeepRow(rc, r.match)
                     /\ UNCHANGED <<pc, stack, ret, exc>>
                [] OTHER ->
                     /\ log' = Append(log, Event("expect", "EOF"))
                     /\ rc' = rc
                     /\ Raise("EOF")
    /\ UNCHANGED <<arrived, flow, trace, child, eof, pending, wire, nsent, atVars, gpsVars, command>>

GetCgdcont == get_cgdcont_send \/ get_cgdcont_expect

----------------------------------------------------------------------------
(* TelitECM.get_ecm_config and ecm_up                                      *)

\* stuff = self._command_with_result("Sending", "AT#ECMC?", ...)
get_ecm_config_call ==
    /\ pc = "get_ecm_config"
    /\ command' = [cmd |-> "AT#ECMC?", pattern |-> "ECMC"]
    /\ Call("_command_with_result", "ecmc_results")
    /\ UNCHANGED <<arrived, flow, trace, ret, exc, chanVars, log, atVars, gpsVars, rc>>

\* stuff = stuff.split(","); if len(stuff) >= 5: rc = [strip(v) for v in stuff]
\* if rc is None: raise ECMDataError / return rc
get_ecm_config_results ==
    /\ pc = "ecmc_results"
    /\ LET stuff == split(ret)
       IN  IF Len(stuff) >= 5
           THEN Return(List([i \in DOMAIN stuff |-> _strip_quotes(stuff[i])]))
           ELSE Raise("ECMDataError")
    /\ UNCHANGED <<arrived, flow, trace, chanVars, log, atVars, gpsVars, cwrVars>>

\* v = self.get_ecm_config()
ecm_up_call ==
    /\ pc = "ecm_up"
    /\ Call("get_ecm_config", "ecm_up_ret")
    /\ UNCHANGED <<arrived, flow, trace, ret, exc, chanVars, log, atVars, gpsVars, cwrVars>>

\* return v[1] == "1"
EcmUp_nonzero(v) == v[2] # <<"0">>
EcmUp(v) == v[2] = <<"1">>

ecm_up_ret ==
    /\ pc = "ecm_up_ret"
    /\ Return(Bool(EcmUp(ret.list)))
    /\ UNCHANGED <<arrived, flow, trace, chanVars, log, atVars, gpsVars, cwrVars>>

EcmStatus == get_ecm_config_call \/ get_ecm_config_results
                \/ ecm_up_call \/ ecm_up_ret

----------------------------------------------------------------------------
(* Sessions: with Telit(device) as t: ...                                  *)

\* A with statement that runs its body and never the exit handler.
__enter__without_exit ==
    /\ pc = "__enter__"
    /\ child' = child + 1
    /\ eof' = FALSE
    /\ buf' = <<>> /\ wire' = <<>> /\ pending' = <<>> /\ arrived' = <<>>
    /\ trace' = Append(trace, Event("spawn", ""))
    /\ pc' = Head(stack)
    /\ stack' = Tail(stack)
    /\ UNCHANGED <<flow, ret, exc, nsent, log, atVars, gpsVars, cwrVars>>

\* __enter__: self._child = pexpect.spawn(self._cmd).  The body of the with
\* block is on top of the stack; __exit__ is put under it.
__enter__ ==
    /\ pc = "__enter__"
    /\ child' = child + 1
    /\ eof' = FALSE
    /\ buf' = <<>> /\ wire' = <<>> /\ pending' = <<>> /\ arrived' = <<>>
    /\ trace' = Append(trace, Event("spawn", ""))
    /\ pc' = Head(stack)
    /\ stack' = <<"__exit__">> \o Tail(stack)
    /\ UNCHANGED <<flow, ret, exc, nsent, log, atVars, gpsVars, cwrVars>>

\* __exit__: sendline(""); sleep(0.1); sendline("~."); sleep(0.5).  It runs
\* when the body returns and when an exception leaves the body, which then
\* goes on to the next handler.
__exit__ ==
    /\ pc = "__exit__"
    /\ log' = log \o <<Event("sendline", ""), Event("sleep", "0.1"),
                        Event("sendline", "~."), Event("sleep", "0.5")>>
    /\ trace' = trace \o (IF exc = "none" THEN <<>> ELSE <<Event("raise", exc)>>)
                      \o <<Event("close", "")>>
    /\ IF exc = "none" THEN Return(ret) ELSE Raise(exc)
    /\ UNCHANGED <<arrived, flow, chanVars, atVars, gpsVars, cwrVars>>

\* The caller starts an operation of the modem object: op is its name, entry
\* its first position, cmd the command it sends (if it is one of the
\* engine's), back where the caller goes on ("" when the operation is the
\* last of the with block).  The log, the arrivals and the locals are those
\* of the operation that starts.
Step(op, entry, cmd, back) ==
    /\ trace' = Append(trace, Event("call", op))
    /\ log' = <<>>
    /\ arrived' = buf
    /\ command' = cmd
    /\ count' = DefaultCount
    /\ k' = 0 /\ min_results' = None /\ decoded' = <<>> /\ rc' = None
    /\ IF back = "" THEN pc' = entry /\ stack' = stack ELSE Call(entry, back)
    /\ UNCHANGED <<flow, ret, exc, chanVars, hdop, total, verbose>>

\* The same call with the operation taken as one step: the caller waits at
\* "invoke" for it to end in one of the ways telit.py lets it end.  before
\* is what the caller did since the last operation.
Invoke(before, op, back) ==
    /\ trace' = trace \o before \o <<Event("call", op)>>
    /\ pc' = "invoke"
    /\ stack' = IF back = "" THEN stack ELSE <<back>> \o stack
    /\ UNCHANGED <<arrived, flow, ret, exc, chanVars, log, atVars, gpsVars, cwrVars>>

\* The fixes get_position can return: a sentence of twelve fields with fix
\* code 3, parsed.
Fixes == { _parse_values(Sentence(12, "1", h, "3")) : h \in HdopFields }

\* The exceptions a wait on the channel can raise (_wait_for_result,
\* _handle_single_result, pexpect's end of stream).
WaitRaises == {"ModemTimeout", "ModemError", "EOF"}

\* How an operation ends: what it returns, and what it raises (for
\* get_position also what _parse_values and the verbose print raise, for
\* get_gpsp_status the int() of a result that is None).
Returns(op) ==
    CASE op = "get_position" -> {None} \cup Fixes
      [] op = "get_gpsp_status" -> { [int |-> n] : n \in {0, 1} }
      [] OTHER -> {None}
Raises(op) ==
    CASE op = "get_position" ->
            WaitRaises \cup {"TelitGPSDataError", "ValueError", "IndexError"}
      [] op = "get_gpsp_status" -> WaitRaises \cup {"TypeError"}
      [] OTHER -> WaitRaises

\* The operation the caller waits for ends.
operation_ends ==
    /\ pc = "invoke"
    /\ LET op == trace[Len(trace)].a
       IN  \/ \E v \in Returns(op) : Return(v)
           \/ \E e \in Raises(op) : Raise(e)
    /\ UNCHANGED <<arrived, flow, trace, chanVars, log, atVars, gpsVars, cwrVars>>

----------------------------------------------------------------------------
(* ecm.py: main                                                            *)

EcmFlows == {"ecm --start", "ecm --start --setclock", "ecm --stop",
             "ecm --check", "ecm --start --stop", "ecm --stop --setclock",
             "ecm"}

\* args.start, args.stop, args.check, args.setclock
HasFlag(f, flag) ==
    CASE flag = "start"    -> f \in {"ecm --start", "ecm --start --setclock",
                                      "ecm --start --stop"}
      [] flag = "stop"     -> f \in {"ecm --stop", "ecm --start --stop",
                                      "ecm --stop --setclock"}
      [] flag = "check"    -> f = "ecm --check"
      [] flag = "setclock" -> f \in {"ecm --start --setclock",
                                      "ecm --stop --setclock"}

PyBool(b) == IF b THEN "True" ELSE "False"

\* The checks of the arguments and of the hardware, up to the with block.
ecm_main ==
    /\ pc = "ecm_main"
    /\ IF Cardinality({ m \in {"start", "stop", "check"} : HasFlag(flow, m) }) # 1
          \/ (HasFlag(flow, "setclock") /\ ~HasFlag(flow, "start"))
       THEN /\ Raise("SystemExit(1)")
            /\ trace' = Append(trace, Event("exit", "arguments"))
       ELSE \E present \in BOOLEAN :
              IF present
              THEN /\ trace' = Append(trace, Event("check_for_telit", "True"))
                   /\ pc' = "__enter__"
                   /\ stack' = <<"ecm_body">>
                   /\ UNCHANGED <<ret, exc>>
              ELSE /\ Raise("SystemExit(1)")
                   /\ trace' = Append(trace, Event("check_for_telit", "False"))
    /\ UNCHANGED <<arrived, flow, chanVars, log, atVars, gpsVars, cwrVars>>

\* if args.start: t.send_at_ok() ... / elif args.stop: t.send_at_ok() ... /
\* elif args.check: if not check_connection(args.host): t.send_at_ok() ...
ecm_body ==
    /\ pc = "ecm_body"
    /\ IF HasFlag(flow, "check")
       THEN \E up \in BOOLEAN :
              IF up
              THEN /\ trace' = Append(trace, Event("check_connection", "True"))
                   /\ Return(None)
                   /\ UNCHANGED <<arrived, flow, chanVars, log, atVars, gpsVars, cwrVars>>
              ELSE Step("send_at_ok", "send_at_ok", command, "ecm_run_start")
       ELSE Step("send_at_ok", "send_at_ok", command,
                 IF HasFlag(flow, "start") THEN "ecm_start_iccid" ELSE "ecm_stop_up")

\* iccid = f"iccid:{t.iccid}"
ecm_start_iccid ==
    /\ pc = "ecm_start_iccid"
    /\ Step("iccid", "_command_with_result",
            [cmd |-> "AT+ICCID", pattern |-> "ICCID"], "ecm_start_up")

\* if t.ecm_up(): ...
ecm_start_up ==
    /\ pc = "ecm_start_up"
    /\ Step("ecm_up", "ecm_up", command, "ecm_start_clock")

\* if t.ecm_up(): print(...) / if args.setclock: ...
ecm_start_clock ==
    /\ pc = "ecm_start_clock"
    /\ trace' = Append(trace, Event("is_up", PyBool(ret.bool)))
    /\ pc' = IF HasFlag(flow, "setclock") THEN "set_clock" ELSE "ecm_run_start"
    /\ UNCHANGED <<arrived, flow, stack, ret, exc, chanVars, log, atVars,
                   gpsVars, cwrVars>>

\* set_clock(t, Clock_flag): if check is not None and os.path.exists(check):
\* return / utc = t.utc_clock
set_clock ==
    /\ pc = "set_clock"
    /\ \E flagged \in BOOLEAN :
          IF flagged
          THEN /\ pc' = "ecm_run_start"
               /\ UNCHANGED <<arrived, flow, trace, stack, ret, exc, chanVars, log,
                              atVars, gpsVars, cwrVars>>
          ELSE Step("clock", "_command_with_result",
                    [cmd |-> "AT+CCLK?", pattern |-> "CCLK"], "ecm_start_zone")

\* zone_offset = int(rc[17:]); if zone_offset % 4 != 0: raise TelitDataError
ecm_start_zone ==
    /\ pc = "ecm_start_zone"
    /\ IF zone_offset(split(ret)) % 4 # 0
       THEN Raise("TelitDataError")
       ELSE pc' = "ecm_run_start" /\ UNCHANGED <<stack, ret, exc>>
    /\ UNCHANGED <<arrived, flow, trace, chanVars, log, atVars, gpsVars, cwrVars>>

\* t.ecm_start(), the last operation of the with block
ecm_run_start ==
    /\ pc = "ecm_run_start"
    /\ Step("ecm_start", "run_void", [cmd |-> "AT#ECM=1,0", pattern |-> "none"], "")

\* if not t.ecm_up(): ...
ecm_stop_up ==
    /\ pc = "ecm_stop_up"
    /\ Step("ecm_up", "ecm_up", command, "ecm_stop_decide")

\* if not t.ecm_up(): exit(1) / t.ecm_stop()
ecm_stop_decide ==
    /\ pc = "ecm_stop_decide"
    /\ IF ret.bool
       THEN Step("ecm_stop", "run_void", [cmd |-> "AT#ECMD=0", pattern |-> "none"], "")
       ELSE /\ Raise("SystemExit(1)")
            /\ trace' = Append(trace, Event("is_up", "False"))
            /\ UNCHANGED <<arrived, flow, chanVars, log, atVars, gpsVars, cwrVars>>

EcmMain == ecm_main \/ ecm_body \/ ecm_start_iccid \/ ecm_start_up
              \/ ecm_start_clock \/ set_clock \/ ecm_start_zone \/ ecm_run_start
              \/ ecm_stop_up \/ ecm_stop_decide

----------------------------------------------------------------------------
(* telit_daemon.py: note_location, gps_init, gps_check, ecm_check, main     *)

(* The operations the daemon calls on the modem object are taken as one    *)
(* step each (Invoke, operation_ends).                                     *)

\* The HDOP the key-value store R holds according to the trace: the field
\* of the last location stored, or "" when none is stored.
StoredHdop(tr) ==
    LET at == { i \in DOMAIN tr : tr[i].e = "store" }
    IN  IF at = {} THEN ""
        ELSE tr[CHOOSE i \in at : \A j \in at : j <= i].a

\* The comparison turned round: a fix is dropped when it is not worse than
\* the stored one.
note_location_keeps_worse(tr, pos) ==
    IF pos = None THEN <<>>
    ELSE IF StoredHdop(tr) # "" /\ pos.hdop <= float(StoredHdop(tr))
         THEN <<Event("reject", pos.HDOP)>>
         ELSE <<Event("store", pos.HDOP)>>

\* note_location(pos): nothing for None; nothing for a fix whose HDOP is
\* greater than the stored one; else the fix is stored (R and file).
note_location(tr, pos) ==
    IF pos = None THEN <<>>
    ELSE IF StoredHdop(tr) # "" /\ pos.hdop > float(StoredHdop(tr))
         THEN <<Event("reject", pos.HDOP)>>
         ELSE <<Event("store", pos.HDOP)>>

\* The location read from /boot/deepseek/location.json, its hdop set to 9999.0.
SeedLocation == [HDOP |-> "9999.0", hdop |-> float("9999.0")]

\* What R["HDOP"] holds when a program starts: nothing, or the value an
\* earlier run left in the store.
StoresAtStart == { <<>>, <<Event("store", "4.0")>> }

\* main: if not check_for_telit(): exit(0);
\* if not os.path.exists(Device): exit(0); gps_init(args.verbose)
daemon_main ==
    /\ pc = "daemon_main"
    /\ \E present \in BOOLEAN :
          IF present
          THEN /\ \E r \in StoresAtStart :
                     trace' = trace \o <<Event("check_for_telit", "True")>> \o r
               /\ pc' = "gps_init"
               /\ UNCHANGED <<stack, ret, exc>>
          ELSE /\ trace' = Append(trace, Event("check_for_telit", "False"))
               /\ Raise("SystemExit(0)")
    /\ UNCHANGED <<arrived, flow, chanVars, log, atVars, gpsVars, cwrVars>>

\* gps_init: if os.path.exists(Location_src): ... note_location(Location);
\* with Telit(Device, verbose) as t:
gps_init ==
    /\ pc = "gps_init"
    /\ \E seeded \in BOOLEAN :
          trace' = trace \o (IF seeded THEN note_location(trace, SeedLocation)
                                       ELSE <<>>)
    /\ pc' = "__enter__"
    /\ stack' = <<"gps_init_body", "daemon_loop">>
    /\ UNCHANGED <<arrived, flow, ret, exc, chanVars, log, atVars, gpsVars, cwrVars>>

\* t.send_at_ok()
gps_init_body ==
    /\ pc = "gps_init_body"
    /\ Invoke(<<>>, "send_at_ok", "gps_init_on")

\* t.send_gpsp_on(); pos = None
gps_init_on ==
    /\ pc = "gps_init_on"
    /\ Invoke(<<>>, "send_gpsp_on", "gps_init_loop")

\* while pos is None: pos = t.get_position(2.0)
\* note_location(pos, verbose); t.send_gpsp_off()
\* (pos is ret: None after send_gpsp_on, then what get_position returned)
gps_init_loop ==
    /\ pc = "gps_init_loop"
    /\ IF ret = None
       THEN /\ Cardinality({ i \in DOMAIN trace :
                               trace[i] = Event("call", "get_position") }) < MaxInitRounds
            /\ Invoke(<<>>, "get_position", "gps_init_loop")
       ELSE Invoke(note_location(trace, ret), "send_gpsp_off", "")

\* What the history keeps of the cycles that are over: the channels opened
\* and ended, the values stored, and the sleeps.
Carried(tr) ==
    SelectSeq(tr, LAMBDA ev : ev.e \in {"spawn", "close", "eof", "store"}
                                 \/ ev = Event("sleep", "check"))

\* while True: try: ecm_check(args.host, args.verbose)
daemon_loop ==
    /\ pc = "daemon_loop"
    /\ Cardinality({ i \in DOMAIN trace : trace[i] = Event("sleep", "check") })
          < MaxCycles
    /\ pc' = "ecm_check"
    /\ stack' = <<"main_except">>
    /\ trace' = Append(Carried(trace), Event("cycle", ""))
    /\ UNCHANGED <<arrived, flow, ret, exc, chanVars, log, atVars, gpsVars, cwrVars>>

\* ecm_check: if ecm.check_connection(host): return / with Telit(...) as t:
\* and, after it, gps_check(args.verbose) with its own with.
ecm_check ==
    /\ pc = "ecm_check"
    /\ \E up \in BOOLEAN :
          IF up
          THEN /\ trace' = Append(trace, Event("check_connection", "True"))
               /\ pc' = "gps_check"
               /\ stack' = stack
          ELSE /\ trace' = Append(trace, Event("check_connection", "False"))
               /\ pc' = "__enter__"
               /\ stack' = <<"ecm_check_body", "gps_check">> \o stack
    /\ UNCHANGED <<arrived, flow, ret, exc, chanVars, log, atVars, gpsVars, cwrVars>>

\* The body without its first line: t.ecm_start() on the fresh channel.
ecm_check_body_unprobed ==
    /\ pc = "ecm_check_body"
    /\ Invoke(<<>>, "ecm_start", "")

\* t.send_at_ok()
ecm_check_body ==
    /\ pc = "ecm_check_body"
    /\ Invoke(<<>>, "send_at_ok", "ecm_check_start")

\* t.ecm_start()
ecm_check_start ==
    /\ pc = "ecm_check_start"
    /\ Invoke(<<>>, "ecm_start", "")

\* gps_check: with Telit(Device, verbose) as t:
gps_check ==
    /\ pc = "gps_check"
    /\ trace' = Append(trace, Event("gps_check", ""))
    /\ pc' = "__enter__"
    /\ stack' = <<"gps_check_body">> \o stack
    /\ UNCHANGED <<arrived, flow, ret, exc, chanVars, log, atVars, gpsVars, cwrVars>>

\* t.send_at_ok()
gps_check_body ==
    /\ pc = "gps_check_body"
    /\ Invoke(<<>>, "send_at_ok", "gps_check_on")

\* t.send_gpsp_on()
gps_check_on ==
    /\ pc = "gps_check_on"
    /\ Invoke(<<>>, "send_gpsp_on", "gps_check_fix")

\* pos = t.get_position(2.0, total=2)
gps_check_fix ==
    /\ pc = "gps_check_fix"
    /\ Invoke(<<>>, "get_position", "gps_check_note")

\* note_location(pos, verbose); t.send_gpsp_off()
gps_check_note ==
    /\ pc = "gps_check_note"
    /\ Invoke(note_location(trace, ret), "send_gpsp_off", "")

\* The exceptions the loop of main catches: ModemError with its subclasses,
\* and pexpect's EOF.
Caught == {"ModemError", "ModemBusted", "ModemTimeout", "TelitGPSDataError",
           "ECMDataError", "TelitDataError", "EOF"}

\* except ModemError as e: print / except pexpect.exceptions.EOF as e: print
\* time.sleep(args.check)
main_except ==
    /\ pc = "main_except"
    /\ IF exc = "none" \/ exc \in Caught
       THEN /\ trace' = trace \o (IF exc = "none" THEN <<>>
                                   ELSE <<Event("caught", exc)>>)
                             \o <<Event("sleep", "check")>>
            /\ exc' = "none"
            /\ pc' = "daemon_loop"
            /\ UNCHANGED <<stack, ret>>
       ELSE /\ Raise(exc)
            /\ trace' = trace
    /\ UNCHANGED <<arrived, flow, chanVars, log, atVars, gpsVars, cwrVars>>

Daemon == daemon_main \/ gps_init \/ gps_init_body \/ gps_init_on
             \/ gps_init_loop \/ daemon_loop \/ ecm_check \/ ecm_check_body
             \/ ecm_check_start \/ gps_check \/ gps_check_body \/ gps_check_on
             \/ gps_check_fix \/ gps_check_note \/ main_except

----------------------------------------------------------------------------
(* gps.py: set_coordinates, update_coordinates, get_gps_fix, main          *)

(* The operations gps.py calls on the modem object are taken as one step   *)
(* each (Invoke, operation_ends).  R["HDOP"] and the location file are     *)
(* read off the trace: a "store" event is a value of R["HDOP"], a "file"   *)
(* event the hdop of /tmp/deepseek/location.json, "file elsewhere" the     *)
(* same for a file whose coordinates are not those of the fix.             *)

GpsFlows == {"gps", "gps --toss 1", "gps --until 2.0"}

\* args.until of the flow, in tenths (not used when the option is not given).
until == IF flow = "gps --until 2.0" THEN float("2.0") ELSE 0

\* The last value the trace gives for one of these, "" when there is none.
LastOf(tr, whats) ==
    LET at == { i \in DOMAIN tr : tr[i].e \in whats }
    IN  IF at = {} THEN None
        ELSE tr[CHOOSE i \in at : \A j \in at : j <= i]

\* set_coordinates(pos): nothing for None; nothing when R["HDOP"] is set and
\* pos["hdop"] <= R["HDOP"]; else R is written.
set_coordinates(tr, pos) ==
    LET r == LastOf(tr, {"store"})
    IN  IF pos = None THEN <<>>
        ELSE IF r # None /\ pos.hdop <= float(r.a) THEN <<>>
        ELSE <<Event("store", pos.HDOP)>>

\* update_coordinates(pos): nothing for None; when the file exists, nothing
\* if value["hdop"] >= current["hdop"] or the coordinates are within
\* tolerance; else the file is written.
update_coordinates(tr, pos) ==
    LET current == LastOf(tr, {"file", "file elsewhere"})
    IN  IF pos = None THEN <<>>
        ELSE IF current # None
                /\ (pos.hdop >= float(current.a) \/ current.e = "file")
        THEN <<>>
        ELSE <<Event("file", pos.HDOP)>>

\* What R and the file hold when gps.py starts.
GpsStores == StoresAtStart
GpsFiles == { <<>>, <<Event("file", "4.0")>>, <<Event("file elsewhere", "4.0")>> }

\* main: if not check_for_telit(): exit(1) / with Telit("/dev/ttyUSB3", ...)
gps_main ==
    /\ pc = "gps_main"
    /\ \E present \in BOOLEAN :
          IF present
          THEN /\ \E r \in GpsStores, f \in GpsFiles :
                     trace' = trace \o <<Event("check_for_telit", "True")>>
                                    \o r \o f
               /\ pc' = "__enter__"
               /\ stack' = <<"gps_body">>
               /\ UNCHANGED <<ret, exc>>
          ELSE /\ trace' = Append(trace, Event("check_for_telit", "False"))
               /\ Raise("SystemExit(1)")
    /\ UNCHANGED <<arrived, flow, chanVars, log, atVars, gpsVars, cwrVars>>

\* t.send_at_ok()
gps_body ==
    /\ pc = "gps_body"
    /\ Invoke(<<>>, "send_at_ok", "gps_status")

\* if t.get_gpsp_status() == 0:
gps_status ==
    /\ pc = "gps_status"
    /\ Invoke(<<>>, "get_gpsp_status", "gps_power")

\* if args.until is None: ... else: get_continuous_gps_fix(...)
AfterPower == IF flow = "gps --until 2.0" THEN "gps_continuous" ELSE "gps_fix"

\* _ = t.send_gpsp_on()
gps_power ==
    /\ pc = "gps_power"
    /\ IF ret.int = 0
       THEN Invoke(<<>>, "send_gpsp_on", AfterPower)
       ELSE /\ pc' = AfterPower
            /\ UNCHANGED <<arrived, flow, trace, stack, ret, exc, chanVars, log,
                           atVars, gpsVars, cwrVars>>

\* for i in range(args.toss+1): get_gps_fix: pos = t.get_position(2.0,
\* total=retries) / after the loop: _ = t.send_gpsp_off()
gps_fix ==
    /\ pc = "gps_fix"
    /\ LET toss == IF flow = "gps --toss 1" THEN 1 ELSE 0
           done == Cardinality({ i \in DOMAIN trace : trace[i] = Event("sleep", "5") })
       IN  IF done < toss + 1
           THEN Invoke(<<>>, "get_position", "gps_noted")
           ELSE Invoke(<<>>, "send_gpsp_off", "")

\* set_coordinates(pos, verbose); update_coordinates(pos, verbose);
\* time.sleep(5)
gps_noted ==
    /\ pc = "gps_noted"
    /\ LET set == set_coordinates(trace, ret)
       IN  trace' = trace \o set \o update_coordinates(trace \o set, ret)
                          \o <<Event("sleep", "5")>>
    /\ pc' = "gps_fix"
    /\ UNCHANGED <<arrived, flow, stack, ret, exc, chanVars, log, atVars, gpsVars,
                   cwrVars>>

\* get_continuous_gps_fix: while True: pos = t.get_position(until, total=12)
gps_continuous ==
    /\ pc = "gps_continuous"
    /\ Cardinality({ i \in DOMAIN trace : trace[i].e = "pos" }) < MaxPolls
    /\ Invoke(<<>>, "get_position", "gps_continuous_pos")

\* if pos["hdop"] <= until: return
AtThreshold_strict(pos, threshold) == pos.hdop < threshold
AtThreshold(pos, threshold) == pos.hdop <= threshold

\* if pos is None: time.sleep(10)
\* elif last_pos is None or pos["hdop"] < last_pos["hdop"]: last_pos = pos;
\*     set_coordinates(last_pos, verbose); update_coordinates(last_pos, verbose)
\*     if pos["hdop"] <= until: return
\* and, after the return, main's _ = t.send_gpsp_off().
\* (pos is ret; last_pos is the last "last_pos" event of the trace)
gps_continuous_pos ==
    /\ pc = "gps_continuous_pos"
    /\ LET pos == ret
           last_pos == LastOf(trace, {"last_pos"})
           set == set_coordinates(trace, pos)
           noted == <<Event("pos", pos.HDOP), Event("last_pos", pos.HDOP)>>
                       \o set \o update_coordinates(trace \o set, pos)
           goes_on == /\ pc' = "gps_continuous"
                      /\ UNCHANGED <<arrived, flow, stack, ret, exc, chanVars, log,
                                     atVars, gpsVars, cwrVars>>
       IN  IF pos = None
           THEN /\ trace' = trace \o <<Event("pos", "None"), Event("sleep", "10")>>
                /\ goes_on
           ELSE IF last_pos = None \/ pos.hdop < float(last_pos.a)
           THEN IF AtThreshold(pos, until)
                THEN Invoke(noted \o <<Event("return", pos.HDOP)>>,
                            "send_gpsp_off", "")
                ELSE /\ trace' = trace \o noted
                     /\ goes_on
           ELSE /\ trace' = Append(trace, Event("pos", pos.HDOP))
                /\ goes_on

GpsMain == gps_main \/ gps_body \/ gps_status \/ gps_power \/ gps_fix
              \/ gps_noted \/ gps_continuous \/ gps_continuous_pos

----------------------------------------------------------------------------
(* The initial setup of the modem, in a session of its own:                *)
(*     with Telit(device) as t: t.send_at_ok(); t.set_usb_config(4)        *)
(* and the same with t.reboot().                                           *)

SetupFlows == {"setup set_usb_config", "setup reboot"}

\* with Telit("/dev/ttyUSB2", verbose=True) as t:
setup_main ==
    /\ pc = "setup_main"
    /\ pc' = "__enter__"
    /\ stack' = <<"setup_body">>
    /\ UNCHANGED <<arrived, flow, trace, ret, exc, chanVars, log, atVars, gpsVars, cwrVars>>

\* t.send_at_ok()
setup_body ==
    /\ pc = "setup_body"
    /\ Step("send_at_ok", "send_at_ok", command, "setup_command")

\* t.set_usb_config(4) or t.reboot(), the last operation of the with block
setup_command ==
    /\ pc = "setup_command"
    /\ IF flow = "setup reboot"
       THEN Step("reboot", "reboot", command, "")
       ELSE Step("set_usb_config", "set_usb_config", command, "")

Setup == setup_main \/ setup_body \/ setup_command

----------------------------------------------------------------------------
(* Initial states: a freshly spawned channel and one operation to run.     *)

Fresh(f, start) ==
    /\ flow = f
    /\ trace = <<>>
    /\ pc = start
    /\ stack = <<>>
    /\ ret = None
    /\ exc = "none"
    /\ child = 1
    /\ eof = FALSE
    /\ pending = <<>>
    /\ wire = <<>>
    /\ buf = <<>>
    /\ arrived = <<>>
    /\ nsent = 0
    /\ log = <<>>
    /\ k = 0
    /\ min_results = None
    /\ command = None
    /\ rc = None
    /\ decoded = <<>>

\* send_at_ok(count) on a freshly opened channel.
InitHandshake ==
    /\ Fresh("handshake", "send_at_ok")
    /\ count \in 1..MaxCount
    /\ hdop = 0 /\ total = 0 /\ verbose = FALSE

NextHandshake == Environment \/ Handshake

SpecHandshake == InitHandshake /\ [][NextHandshake]_vars

\* _parse_values on a sentence of any number of fields, with any fix code
\* and an HDOP field that is a number or empty.
InitDecode ==
    /\ flow = "decode" /\ pc = "_parse_values"
    /\ \E n \in 0..MaxFields, t \in {"1", "2"}, h \in HdopFields \cup {""},
          fix \in {"0", "2", "3"} :
          rc = Str(Sentence(n, t, h, fix))
    /\ command = None
    /\ stack = <<>> /\ ret = None /\ exc = "none"
    /\ trace = <<>>
    /\ child = 1 /\ eof = FALSE
    /\ pending = <<>> /\ wire = <<>> /\ buf = <<>> /\ arrived = <<>>
    /\ nsent = 0 /\ log = <<>>
    /\ k = 0 /\ count = 0
    /\ hdop = 0 /\ total = 0 /\ min_results = None /\ verbose = FALSE
    /\ decoded = <<>>

NextDecode == parse_values_call

SpecDecode == InitDecode /\ [][NextDecode]_vars

\* A program that has no channel yet.
NoChannel(f, start) ==
    /\ flow = f /\ pc = start
    /\ trace = <<>>
    /\ stack = <<>> /\ ret = None /\ exc = "none"
    /\ child = 0 /\ eof = TRUE
    /\ pending = <<>> /\ wire = <<>> /\ buf = <<>> /\ arrived = <<>>
    /\ nsent = 0 /\ log = <<>>
    /\ k = 0 /\ count = 0
    /\ hdop = 0 /\ total = 0 /\ min_results = None /\ verbose = FALSE
    /\ decoded = <<>>
    /\ command = None /\ rc = None

\* ecm.py with each combination of its mode flags.
InitEcm == \E f \in EcmFlows : NoChannel(f, "ecm_main")

NextEcm == Environment \/ EcmMain \/ __enter__ \/ __exit__
              \/ Handshake \/ CommandWithResult \/ RunVoid \/ EcmStatus

SpecEcm == InitEcm /\ [][NextEcm]_vars

\* The setup session with either reboot-class command.
InitSetup == \E f \in SetupFlows : NoChannel(f, "setup_main")

NextSetup == Environment \/ Setup \/ __enter__ \/ __exit__
                \/ Handshake \/ Reboot

SpecSetup == InitSetup /\ [][NextSetup]_vars

\* telit_daemon.py from its start.
InitDaemon == NoChannel("telit_daemon", "daemon_main")

NextDaemon == Daemon \/ __enter__ \/ __exit__ \/ operation_ends

SpecDaemon == InitDaemon /\ [][NextDaemon]_vars

\* gps.py, one fix or two.
InitGps == \E f \in GpsFlows : NoChannel(f, "gps_main")

NextGps == GpsMain \/ __enter__ \/ __exit__ \/ operation_ends

SpecGps == InitGps /\ [][NextGps]_vars

\* Every program that opens a session: ecm.py, gps.py, telit_daemon.py and
\* the initial setup.
InitCallers == InitEcm \/ InitSetup \/ InitGps \/ InitDaemon

NextCallers == Environment \/ EcmMain \/ Setup \/ GpsMain \/ Daemon
                  \/ __enter__ \/ __exit__ \/ operation_ends
                  \/ Handshake \/ CommandWithResult \/ RunVoid \/ EcmStatus
                  \/ Reboot

SpecCallers == InitCallers /\ [][NextCallers]_vars

\* The target HDOPs (tenths) get_position is asked for: 1.5 and 2.0.
Targets == {15, 20}

\* get_position(hdop, total) on an open channel.
InitAcquire ==
    /\ Fresh("acquire", "get_position")
    /\ count = 0
    /\ hdop \in Targets
    /\ total \in 1..MaxAttempts
    /\ verbose \in BOOLEAN

NextAcquire == Environment \/ CommandWithResult \/ GetPosition

SpecAcquire == InitAcquire /\ [][NextAcquire]_vars

\* reboot() or set_usb_config() on an open channel.
InitReboot ==
    /\ \/ Fresh("reboot", "reboot")
       \/ Fresh("set_usb_config", "set_usb_config")
    /\ count = 0
    /\ hdop = 0 /\ total = 0 /\ verbose = FALSE

NextReboot == Environment \/ Reboot \/ Handshake

SpecReboot == InitReboot /\ [][NextReboot]_vars

\* The commands sent and awaited with no data expected: ecm_start, ecm_stop.
VoidCommands == {"AT#ECM=1,0", "AT#ECMD=0"}

\* One command of the engine on an open channel: a command that returns
\* data (get_usb_config's), one that returns none, or get_cgdcont.
InitEngine ==
    /\ \/ /\ flow = "run" /\ pc = "_command_with_result"
          /\ command = [cmd |-> "AT#USBCFG?", pattern |-> "USBCFG"]
       \/ /\ flow = "run_void" /\ pc = "run_void"
          /\ \E c \in VoidCommands : command = [cmd |-> c, pattern |-> "none"]
       \/ /\ flow = "get_cgdcont" /\ pc = "get_cgdcont"
          /\ command = None
       \/ /\ flow = "ecm_up" /\ pc = "ecm_up"
          /\ command = None
    /\ stack = <<>> /\ ret = None /\ exc = "none"
    /\ trace = <<>>
    /\ child = 1 /\ eof = FALSE
    /\ pending = <<>> /\ wire = <<>> /\ buf = <<>> /\ arrived = <<>>
    /\ nsent = 0 /\ log = <<>>
    /\ k = 0 /\ count = 0
    /\ hdop = 0 /\ total = 0 /\ min_results = None /\ verbose = FALSE
    /\ decoded = <<>>
    /\ rc = None

NextEngine == Environment \/ CommandWithResult \/ RunVoid \/ GetCgdcont
                 \/ EcmStatus

SpecEngine == InitEngine /\ [][NextEngine]_vars

----------------------------------------------------------------------------
(* Reading the event log.                                                  *)

Occurrences(ev) == Cardinality({ i \in DOMAIN log : log[i] = ev })
Probes == Occurrences(Event("send", "AT"))
LastEvent == IF log = <<>> THEN Event("none", "") ELSE log[Len(log)]
Finished == pc \in {"done", "raised"}

----------------------------------------------------------------------------
(* Claims about send_at_ok.                                                *)

\* C1: on a channel that stays open, handshake(max_attempts) sends at most
\* max_attempts probes and ends in one of two ways only, whatever the modem
\* answers to each probe (OK, ERROR, silence): it returns when a wait yields
\* OK, or it raises Timeout after max_attempts probes that all failed.
C1_HandshakeEndsTwoWays ==
    (flow = "handshake" /\ Finished /\ ~eof) =>
        /\ Probes <= count
        /\ \/ pc = "done" /\ LastEvent = Event("wait", "OK")
           \/ /\ pc = "raised" /\ exc = "ModemTimeout"
              /\ Probes = count
              /\ Occurrences(Event("wait", "OK")) = 0

----------------------------------------------------------------------------
(* Claims about get_position.                                              *)

Request == Event("send", "AT$GPSACP")
Delay == Event("sleep", "10")
Requests == Occurrences(Request)
Hdops == [i \in DOMAIN decoded |-> decoded[i].hdop]

\* C2: the attempt that decodes a usable fix with HDOP <= target_hdop ends
\* the acquisition: that fix is the value returned, it is the last fix
\* decoded, and no position request or delay follows it.
C2_ReturnsFirstFixMeetingTarget ==
    flow = "acquire" =>
        \A i \in DOMAIN decoded :
            decoded[i].hdop <= hdop =>
                /\ i = Len(decoded)
                /\ pc = "done"
                /\ ret = decoded[i]
                /\ LastEvent = Event("result", "fix")
                /\ Requests = k + 1

\* HDOPs 9.0, 4.0, 2.0, 1.2 with target 1.5 and five attempts allowed: the
\* 1.2 fix is returned on the fourth attempt, and there is no fifth.
C2_Witness ==
    /\ flow = "acquire" /\ pc = "done"
    /\ hdop = 15 /\ total = 5
    /\ Hdops = <<90, 40, 20, 12>>
    /\ ret.hdop = 12
    /\ Requests = 4

\* C3: when the attempts are exhausted without a fix meeting the target, the
\* value returned is a decoded fix of the least HDOP of the run, and it is
\* None only if no usable fix was decoded.
C3_ReturnsBestRetained ==
    (/\ flow = "acquire" /\ pc = "done"
     /\ \A i \in DOMAIN decoded : decoded[i].hdop > hdop) =>
        /\ k = total
        /\ ret = None <=> decoded = <<>>
        /\ ret # None =>
              /\ \E i \in DOMAIN decoded : ret = decoded[i]
              /\ \A i \in DOMAIN decoded : ret.hdop <= decoded[i].hdop

\* A 4.0 fix, then a worse 9.0 fix, and one attempt with no fix: the 4.0
\* fix is returned.
C3_Witness ==
    /\ flow = "acquire" /\ pc = "done"
    /\ total = 3
    /\ Hdops = <<40, 90>>
    /\ Occurrences(Event("result", "miss")) = 1
    /\ ret.hdop = 40

AttemptEvents == SelectSeq(log, LAMBDA ev : ev \in {Request, Delay})
Results == SelectSeq(log, LAMBDA ev : ev.e = "result")
\* Every request so far was answered by a sentence, and each sentence had
\* a fix-quality code other than 3.
AllMisses ==
    /\ Len(Results) = Requests
    /\ \A i \in DOMAIN Results : Results[i] = Event("result", "miss")
\* n requests, with the delay before each but the first.
RequestsWithDelays(n) ==
    [i \in 1..(2 * n - 1) |-> IF i % 2 = 1 THEN Request ELSE Delay]

\* C4: when every attempt is a miss, get_position issues exactly total
\* requests, with the 10 s delay before each but the first, and returns None.
C4_AllMissesReturnNone ==
    (flow = "acquire" /\ Finished /\ AllMisses) =>
        /\ pc = "done"
        /\ ret = None
        /\ Requests = total
        /\ AttemptEvents = RequestsWithDelays(total)

C4_Witness ==
    /\ flow = "acquire" /\ pc = "done"
    /\ total = 3
    /\ AllMisses
    /\ ret = None

----------------------------------------------------------------------------
(* Claims about the reboot / resync sequence.                              *)

RebootFlow == flow \in {"reboot", "set_usb_config"}
Settle == Event("sleep", "30")
EofSeen == Event("eof", "seen")
Spawn == Event("spawn", "")
RebootClass == {Event("send", "AT#REBOOT"), Event("send", "AT#USBCFG=4")}

\* C5: when the wait for the end of the old channel's stream times out, the
\* sequence raises ModemTimeout there and then: no channel is spawned and
\* no handshake probe (nor anything else) is sent afterwards.
C5_NoEofNoResync ==
    (RebootFlow /\ Occurrences(Event("eof", "timeout")) > 0) =>
        /\ pc = "raised" /\ exc = "ModemTimeout"
        /\ LastEvent = Event("eof", "timeout")
        /\ child = 1
        /\ Occurrences(Spawn) = 0
        /\ Probes = 0

\* The modem answered AT#REBOOT with OK but cu never terminated.
C5_Witness ==
    /\ flow = "reboot" /\ pc = "raised"
    /\ LastEvent = Event("eof", "timeout")
    /\ buf # <<>>
    /\ ~eof

IsPrefix(s, t) == Len(s) <= Len(t) /\ \A i \in DOMAIN s : s[i] = t[i]
\* What follows the reboot-class command in the log: the settle wait, the
\* end of the old stream, the spawn, and everything sent.
AfterRebootCommand ==
    LET at == CHOOSE i \in DOMAIN log : log[i] \in RebootClass
    IN  SelectSeq(SubSeq(log, at + 1, Len(log)),
                  LAMBDA ev : ev \in {Settle, EofSeen, Spawn} \/ ev.e = "send")
\* The sequence in full: settle, end of stream, spawn, then send_at_ok's
\* carriage return and its probes.
ResyncSteps ==
    <<Settle, EofSeen, Spawn, Event("send", "\r")>>
        \o [i \in 1..DefaultCount |-> Event("send", "AT")]

\* C6: after a reboot-class command the steps come in the order settle
\* wait, end of stream on the old channel, spawn of the new channel,
\* handshake; nothing is sent between the command and the spawn, and the
\* first command on the new channel is the handshake's probe.
C6_ResyncOrder ==
    (RebootFlow /\ \E i \in DOMAIN log : log[i] \in RebootClass) =>
        /\ IsPrefix(AfterRebootCommand, ResyncSteps)
        /\ child = 1 + Occurrences(Spawn)

\* set_usb_config ran to the end: the handshake on the new channel returned
\* at its second probe.
C6_Witness ==
    /\ flow = "set_usb_config" /\ pc = "done"
    /\ child = 2
    /\ Probes = 2
    /\ Len(AfterRebootCommand) = 6

----------------------------------------------------------------------------
(* Claims about the command engine.                                        *)

\* The lines expect() has taken from the stream so far, matched or skipped.
Consumed == SubSeq(arrived, 1, Len(arrived) - Len(buf))
LastConsumed == IF Consumed = <<>> THEN "none" ELSE Consumed[Len(Consumed)].k
Waits == SelectSeq(log, LAMBDA ev : ev.e = "wait")

\* C7: run returns text only after the data pattern matched and a second,
\* separate wait saw OK, and the text is the one captured; when the second
\* wait ends otherwise (ERROR, timeout, end of stream) run raises and
\* returns nothing.
C7_RunReturnsAfterDataThenOk ==
    flow = "run" =>
        /\ pc = "done" =>
              /\ log = <<Event("send", command.cmd), Event("expect", "match"),
                         Event("wait", "OK")>>
              /\ ret # None /\ ret = rc
              /\ \E i, j \in DOMAIN Consumed :
                    /\ i < j
                    /\ Consumed[i].k = command.pattern
                    /\ Str(Consumed[i].v) = ret
                    /\ Consumed[j].k = "OK"
        /\ pc # "done" => ret = None
        /\ \A i \in DOMAIN Waits :
              Waits[i].a # "OK" => pc = "raised" /\ exc = Waits[i].a

C7_Witness ==
    /\ flow = "run" /\ pc = "done"
    /\ ret = Str(<<"4">>)

\* C8: when the modem answers a data-returning command with a bare
\* terminator (no data line before it) on a channel that stays open, run
\* ends in a protocol error that is not the Timeout.
C8_BareTerminatorIsProtocolError ==
    (/\ flow = "run" /\ Finished /\ ~eof
     /\ arrived # <<>>
     /\ \A i \in DOMAIN arrived : arrived[i].k \in Terminators) =>
        /\ pc = "raised"
        /\ exc \in {"ModemError", "ModemBusted"}

\* C9 as stated: a command cycle without data sends its command once and
\* ends in one of three outcomes: return on OK, ModemError on ERROR,
\* ModemTimeout when neither arrives.
C9_VoidThreeOutcomes ==
    (flow = "run_void" /\ Finished) =>
        /\ nsent = 1
        /\ \/ pc = "done" /\ LastConsumed = "OK"
           \/ pc = "raised" /\ exc = "ModemError" /\ LastConsumed = "ERROR"
           \/ pc = "raised" /\ exc = "ModemTimeout" /\ arrived = <<>>

\* C9, amended: a command cycle without data sends its command exactly once,
\* waits exactly once and ends in exactly one of four outcomes: return on
\* OK, ModemError on ERROR, ModemTimeout when neither arrives on a live
\* channel, pexpect's EOF exception when the stream ends before either.
C9_VoidOneCycle ==
    flow = "run_void" =>
        /\ nsent <= 1
        /\ Occurrences(Event("send", command.cmd)) = nsent
        /\ Finished =>
              /\ nsent = 1
              /\ Len(Waits) = 1
              /\ \/ pc = "done" /\ exc = "none" /\ LastConsumed = "OK"
                 \/ pc = "raised" /\ exc = "ModemError" /\ LastConsumed = "ERROR"
                 \/ pc = "raised" /\ exc = "ModemTimeout" /\ ~eof /\ arrived = <<>>
                 \/ pc = "raised" /\ exc = "EOF" /\ eof /\ arrived = <<>>

\* ecm_start's wait hit the end of the stream.
C9_Witness ==
    /\ flow = "run_void" /\ pc = "raised"
    /\ exc = "EOF"
    /\ command.cmd = "AT#ECM=1,0"

\* The rows of context 1, of four fields or more, that came before the
\* point the reading has reached.
ContextOneRows ==
    { i \in DOMAIN Consumed :
        /\ Consumed[i].k = "CGDCONT"
        /\ Len(Consumed[i].v) >= 4
        /\ Consumed[i].v[1] = <<"1">> }
\* ret is the row, but for the quotes around its second and third field.
IsRow(list, row) ==
    /\ Len(list) = Len(row)
    /\ \A f \in DOMAIN row : f \notin {2, 3} => list[f] = row[f]
    /\ \A f \in {2, 3} : list[f] \in {row[f], SubSeq(row[f], 2, Len(row[f]) - 1)}

\* C10: read_context never returns before OK; once OK is seen it returns the
\* row of context 1 if such a row came before the OK, and it raises the
\* data-format error if and only if none did.
C10_ReadContextReturnsRowOne ==
    flow = "get_cgdcont" =>
        /\ pc = "done" => LastEvent = Event("expect", "OK")
        /\ (Finished /\ LastEvent = Event("expect", "OK")) =>
              /\ ContextOneRows # {} =>
                    /\ pc = "done"
                    /\ \E i \in ContextOneRows : IsRow(ret.list, Consumed[i].v)
              /\ exc = "ECMDataError" <=> ContextOneRows = {}

----------------------------------------------------------------------------
(* Claims about the ECM status.                                            *)

\* The status lines read so far (one command is sent: at most one line).
StatusLines == { i \in DOMAIN Consumed : Consumed[i].k = "ECMC" }
\* The run of AT#ECMC? returned its text.
StatusRead == Occurrences(Event("wait", "OK")) = 1

\* C11: is_up returns true if and only if the status field (index 1 of the
\* status, quotes around it stripped) is the string "1", and false for every
\* other value of the field, the empty one included; a status line of fewer
\* than five fields makes the reading raise the data-format error, and no
\* value is returned.
C11_IsUpIffStatusIsOne ==
    (flow = "ecm_up" /\ Finished /\ StatusRead) =>
        \E i \in StatusLines :
            LET fields == Consumed[i].v
            IN  IF Len(fields) < 5
                THEN pc = "raised" /\ exc = "ECMDataError" /\ ret = rc
                ELSE /\ pc = "done"
                     /\ ret \in {Bool(TRUE), Bool(FALSE)}
                     /\ ret = Bool(TRUE) <=>
                            fields[2] \in { <<"1">>, <<Q, "1", Q>> }

\* is_up answered false on a status line of five fields whose status is empty.
C11_Witness ==
    /\ flow = "ecm_up" /\ pc = "done"
    /\ ret = Bool(FALSE)
    /\ \E i \in StatusLines : Consumed[i].v = EcmcRow(<<>>, 5)

----------------------------------------------------------------------------
(* Claims about the decoding of a position sentence.                       *)

\* C12: decoding a sentence whose field count is not exactly 12 fails with
\* the data-format error and yields nothing; a fix is produced only from a
\* sentence of 12 fields, and it carries that sentence's fields.
C12_DecodeNeedsTwelveFields ==
    (flow = "decode" /\ Finished) =>
        LET position == split(rc)
        IN  /\ Len(position) # 12 =>
                  pc = "raised" /\ exc = "TelitGPSDataError" /\ ret = None
            /\ pc = "done" =>
                  /\ Len(position) = 12
                  /\ ret # None
                  /\ ret.GMTIME = position[1]
                  /\ ret.HDOP = position[4]
                  /\ ret.fix = position[6]

\* A sentence of thirteen fields with fix code 3 was refused.
C12_Witness ==
    /\ flow = "decode" /\ pc = "raised"
    /\ exc = "TelitGPSDataError"
    /\ Len(split(rc)) = 13
    /\ split(rc)[6] = "3"

----------------------------------------------------------------------------
(* Claims about failed attempts of get_position.                           *)

\* The attempt in progress received a sentence that is malformed: its fix
\* code is 3 but it has not twelve fields, or it has fewer than six fields.
MalformedResult ==
    LastEvent \in {Event("result", "malformed"), Event("result", "short")}

\* C19: an attempt of acquire whose response is malformed is counted as a
\* miss: acquire does not raise on it, and goes on to the next attempt (or
\* to its return when none remains).
C19_MalformedIsAMiss ==
    (flow = "acquire" /\ MalformedResult) =>
        /\ pc # "raised"
        /\ exc = "none"
        /\ k = Len(Results)

\* The position request of the attempt in progress timed out.
RequestTimedOut ==
    LastEvent \in {Event("expect", "ModemTimeout"), Event("wait", "ModemTimeout")}

\* C20: when the position request of attempt k times out, acquire does not
\* abort: the timeout uses up the attempt, the loop goes on to the next one
\* while attempts remain, and the fix retained so far is kept for the end.
C20_TimeoutConsumesAnAttempt ==
    (flow = "acquire" /\ RequestTimedOut /\ Requests < total) =>
        /\ pc = "gp_loop"
        /\ exc = "none"
        /\ k = Requests

----------------------------------------------------------------------------
(* Claims about sessions.                                                  *)

Said(ev) == \E i \in DOMAIN trace : trace[i] = ev
Opened == Event("spawn", "")
Closed == Event("close", "")
Channels == { i \in DOMAIN trace : trace[i] = Opened }
\* The close sequence ran on the channel opened at position i of the trace:
\* it ran after i and before any later channel took its place.
ClosedAfter(i) ==
    \E j \in DOMAIN trace :
        /\ j > i
        /\ trace[j] = Closed
        /\ \A m \in Channels : ~(i < m /\ m < j)

\* C13: when the program leaves the session's scope, by return or by an
\* error, the close sequence has run on every channel the session opened,
\* the channel a reboot replaced included.
C13_EveryChannelClosed ==
    (flow \in SetupFlows /\ Finished) =>
        \A i \in Channels : ClosedAfter(i)

\* The exit status of the process: 0 when main returns, 1 when exit(1) or
\* an exception ends it.
ExitStatus == IF pc = "done" THEN 0 ELSE 1
ModemFailures == {"ModemTimeout", "ModemError", "ModemBusted", "ECMDataError",
                  "TelitGPSDataError", "TelitDataError", "EOF"}
\* The status read from the modem is the one the command line asks for.
AlreadyInState ==
    \/ HasFlag(flow, "stop") /\ Said(Event("is_up", "False"))
    \/ HasFlag(flow, "start") /\ Said(Event("is_up", "True"))

\* C18: when ECM is already in the state asked for (--stop while down,
\* --start while up), ecm.py ends with exit status 0, unless a modem
\* operation failed afterwards.
C18_AlreadyInStateExitsZero ==
    (flow \in EcmFlows /\ Finished /\ AlreadyInState) =>
        ExitStatus = 0 \/ exc \in ModemFailures

\* The operations called on the channel opened at position i of the trace,
\* in order.
CallsOn(i) ==
    LET later == { m \in Channels : m > i }
        upto == IF later = {} THEN Len(trace) + 1
                ELSE CHOOSE m \in later : \A n \in later : m <= n
    IN  SelectSeq(SubSeq(trace, i + 1, upto - 1), LAMBDA ev : ev.e = "call")

\* The first operation called after position i of the trace, if any, is the
\* handshake.
HandshakeFirstAfter(i) ==
    LET calls == { j \in (i + 1)..Len(trace) : trace[j].e = "call" }
    IN  calls # {} =>
            trace[CHOOSE j \in calls : \A m \in calls : j <= m].a = "send_at_ok"

\* The running operation has sent nothing but the handshake's carriage
\* return and probes on the channel that is open now.
OnlyProbesSent ==
    LET spawns == { n \in DOMAIN log : log[n] = Event("spawn", "") }
        from == IF spawns = {} THEN 0
                ELSE CHOOSE n \in spawns : \A m \in spawns : m <= n
    IN  \A n \in (from + 1)..Len(log) :
            log[n].e = "send" => log[n].a \in {"\r", "AT"}

\* C14: on every channel a program opens (ecm.py, gps.py, telit_daemon.py,
\* the initial setup, and the channel a reboot re-opens) the first operation
\* called is the handshake send_at_ok, and as long as it is the only one
\* called, nothing but the handshake's carriage return and probes is sent.
C14_HandshakeFirstOnEveryChannel ==
    /\ \A i \in DOMAIN trace : trace[i] = Opened => HandshakeFirstAfter(i)
    /\ (\E i \in DOMAIN trace :
           /\ trace[i] = Opened
           /\ Cardinality({ j \in (i + 1)..Len(trace) : trace[j].e = "call" }) = 1)
          => OnlyProbesSent

\* The daemon's GPS check has gone past its handshake on a channel of its
\* own, after the ECM check had restarted the connection on another.
C14_Witness ==
    /\ flow = "telit_daemon"
    /\ Cardinality(Channels) >= 3
    /\ \E i \in Channels : Len(CallsOn(i)) >= 2 /\ CallsOn(i)[2].a = "ecm_start"
    /\ \E i \in Channels : Len(CallsOn(i)) >= 3 /\ CallsOn(i)[3].a = "get_position"

\* The channel opened at position i of the trace has ended: the close
\* sequence ran on it, or it reported end-of-stream, before any later
\* channel was opened.
Ended(i) ==
    \E j \in DOMAIN trace :
        /\ j > i
        /\ trace[j] \in {Closed, Event("eof", "")}
        /\ \A m \in Channels : ~(i < m /\ m < j)
LiveChannels == { i \in Channels : ~Ended(i) }

\* C15: at most one channel is live at any time: a channel is opened only
\* when every channel opened before it has been closed (the daemon's ECM
\* session before its GPS session) or has reported end-of-stream (reboot).
C15_AtMostOneLiveChannel ==
    Cardinality(LiveChannels) <= 1

\* The daemon is inside the GPS session of a cycle whose ECM check opened a
\* session of its own.
C15_Witness ==
    /\ flow = "telit_daemon"
    /\ Said(Event("check_connection", "False"))
    /\ Said(Event("gps_check", ""))
    /\ Cardinality(Channels) = 3
    /\ Cardinality(LiveChannels) = 1
    /\ pc = "gps_check_fix"

\* The ECM check that found the connection down at position i of the trace
\* failed: an exception left its session.
EcmCheckFailed(i) ==
    /\ trace[i] = Event("check_connection", "False")
    /\ \E j \in DOMAIN trace :
          /\ j > i + 1
          /\ trace[j] = Closed
          /\ trace[j - 1].e = "raise"
          /\ \A m \in (i + 1)..(j - 1) : trace[m] # Closed
CycleEnd == Event("sleep", "check")

\* C16: in every cycle of the daemon whose ECM check fails with a modem
\* error, the GPS check of that cycle still runs before the cycle's sleep.
C16_EcmFailureKeepsGpsCheck ==
    flow = "telit_daemon" =>
        \A i \in DOMAIN trace :
            \A n \in DOMAIN trace :
                (EcmCheckFailed(i) /\ n > i /\ trace[n] = CycleEnd)
                    => \E g \in i..n : trace[g] = Event("gps_check", "")

\* The modem errors the daemon is to survive: Timeout and protocol error.
Recoverable == {"ModemTimeout", "ModemError"}

\* C17: the daemon never ends on an exception that is a recoverable modem
\* error, whether raised in gps_init or in a cycle.
C17_DaemonSurvivesModemErrors ==
    (flow = "telit_daemon" /\ pc = "raised") => exc \notin Recoverable

----------------------------------------------------------------------------
(* Claims about the retained fix, the continuous acquisition and the       *)
(* daemon's store.                                                         *)

\* The first fix of the run that has the least HDOP of the run.
EarliestBest ==
    decoded[CHOOSE i \in DOMAIN decoded :
                /\ \A j \in DOMAIN decoded : decoded[i].hdop <= decoded[j].hdop
                /\ \A j \in 1..(i - 1) : decoded[j].hdop > decoded[i].hdop]

\* C21: an above-target fix replaces the retained one only when its HDOP is
\* strictly lower; of two fixes with the same HDOP the earlier stays
\* retained, and is the one get_position returns.
C21_EqualHdopKeepsEarlierFix ==
    (/\ flow = "acquire" /\ pc = "done"
     /\ decoded # <<>>
     /\ \A i \in DOMAIN decoded : decoded[i].hdop > hdop) =>
        ret = EarliestBest

\* set_usb_config has sent its write and the wait that follows has ended.
UsbWriteWaited ==
    \E i \in DOMAIN log :
        /\ log[i] = Event("send", "AT#USBCFG=4")
        /\ i < Len(log)
        /\ log[i + 1].e = "wait"

\* C23: every set_usb_config that sends its write goes on to the reboot
\* sequence (settle wait, end of stream, re-open, handshake), whether the
\* wait after the write saw OK, ERROR or nothing.
C23_UsbWriteAlwaysResyncs ==
    (flow = "set_usb_config" /\ UsbWriteWaited) =>
        \/ pc = "_wait_for_reboot"
        \/ Occurrences(Settle) > 0

\* The last event of the caller's history.
LastTrace == IF trace = <<>> THEN Event("none", "") ELSE trace[Len(trace)]

\* C24: whenever the daemon is in the sleep between two cycles, no channel
\* is live: every session gps_check or ecm_check opened in the cycle was
\* closed before the sleep, also when a modem operation raised.
C24_NoSessionAcrossSleep ==
    (flow = "telit_daemon" /\ LastTrace = CycleEnd) => LiveChannels = {}

\* The daemon sleeps after a cycle in which the ECM check restarted the
\* connection and a modem operation of the GPS check raised.
C24_Witness ==
    /\ flow = "telit_daemon"
    /\ LastTrace = CycleEnd
    /\ Said(Event("call", "ecm_start"))
    /\ Said(Event("gps_check", ""))
    /\ Said(Event("caught", "ModemTimeout"))
    /\ Cardinality(Channels) = 3

\* What a step adds to the caller's history.
Added == SubSeq(trace', Len(trace) + 1, Len(trace'))

Polls == { i \in DOMAIN trace : trace[i].e = "pos" }
FixPolls == { i \in Polls : trace[i].a # "None" }
PollResults == SelectSeq(trace, LAMBDA ev : ev.e = "pos")

\* The fix of poll i has an HDOP strictly lower than every fix before it.
Improves(i) ==
    /\ i \in FixPolls
    /\ \A j \in FixPolls : j < i => float(trace[i].a) < float(trace[j].a)

\* The history up to the poll that follows poll i.
UpToNextPoll(i) ==
    LET later == { j \in Polls : j > i }
    IN  IF later = {} THEN trace
        ELSE SubSeq(trace, 1, (CHOOSE j \in later : \A m \in later : j <= m) - 1)

\* C22: in get_continuous_gps_fix every fix whose HDOP is strictly lower
\* than that of every earlier fix of the run is published: right after it
\* the store and the location file hold that fix.
C22_ImprovingFixIsPublished ==
    flow = "gps --until 2.0" =>
        \A i \in Polls :
            Improves(i) =>
                /\ LastOf(UpToNextPoll(i), {"store"}) = Event("store", trace[i].a)
                /\ LastOf(UpToNextPoll(i), {"file", "file elsewhere"})
                      = Event("file", trace[i].a)

Sends == SelectSeq(log, LAMBDA ev : ev.e = "send")
OwnCommand == Sends[Len(Sends)].a

\* C25: the OK or ERROR that ends the cycle of a command is the modem's
\* answer to that very command, never the late answer to an earlier one
\* (such as a handshake probe that had timed out).  Stated for the commands
\* that follow the handshake in ecm.py.
C25_TerminatorAnswersOwnCommand ==
    (/\ flow \in EcmFlows
     /\ LastEvent \in {Event("wait", "OK"), Event("wait", "ModemError")}
     /\ Sends # <<>>
     /\ OwnCommand \notin {"AT", "\r"}) =>
        /\ Consumed # <<>>
        /\ Consumed[Len(Consumed)].id = nsent

====
